---- MODULE Spec2Model ----
(***************************************************************************)
(* Model of `preflight check container` (cmd/preflight/cmd/                *)
(* check_container.go): the cobra command life cycle                       *)
(*   Args (checkContainerPositionalArgs) -> PreRunE                        *)
(*   (validateCertificationProjectID) -> flag-group validation -> RunE     *)
(*   (checkContainerRunE)                                                  *)
(* over the layered viper configuration (override > changed flag >         *)
(* environment/file > flag default).                                       *)
(*                                                                         *)
(* Strings are sequences of one-character strings, so that strings.Split,  *)
(* strings.HasPrefix and strings.Contains are computed character by        *)
(* character as the Go library computes them.                              *)
(***************************************************************************)
EXTENDS Naturals, Sequences, FiniteSets

VARIABLES
    pc,             \* position in the command life cycle
    nargs,          \* len(args): number of positional arguments
    idFlag,         \* --certification-project-id : [changed, val]
    tokFlag,        \* --pyxis-api-token          : [changed, val]
    hostFlag,       \* --pyxis-host               : [changed, val]
    envFlag,        \* --pyxis-env                : [changed, val]
    platformFlag,   \* --platform                 : [changed, val]
    persistentFlags,\* the persistent flags inherited from the parent
                    \* commands, by name          : [changed, val]
    submitChanged,  \* --submit given on the command line
    submit,         \* package variable `submit`, the storage of --submit
    insecureFlag,   \* --insecure                 : [changed, val]
    idOther,        \* certification_project_id from environment/file : [set, val]
    tokOther,       \* pyxis_api_token from environment/file          : [set, val]
    submitOther,    \* submit from environment/file                   : [set, val]
    insecureOther,  \* insecure from environment/file                 : [set, val]
    idOverride,     \* viper.Set("certification_project_id", _)       : [set, val]
    err,            \* the error the command ended with, or NoError
    cfg,            \* *runtime.Config built by checkContainerRunE
    opts,           \* []container.Option handed to container.NewCheck
    pyxisID,        \* project id handed to lib.NewPyxisClient
    submitter,      \* the lib.ResultSubmitter resolved
    silenceUsage,   \* cmd.SilenceUsage
    runner,         \* what runpreflight was invoked with
    trace,          \* the stages executed so far, in order
    calls           \* unit harness: calls of validateCertificationProjectID made

vars == << pc, nargs, idFlag, tokFlag, hostFlag, envFlag, platformFlag,
           persistentFlags, submitChanged, submit, insecureFlag, idOther,
           tokOther, submitOther, insecureOther,
           idOverride, err, cfg, opts, pyxisID, submitter, silenceUsage,
           runner, trace, calls >>

inputs == << nargs, idFlag, tokFlag, hostFlag, envFlag, platformFlag,
             persistentFlags, submitChanged, insecureFlag,
             idOther, tokOther, submitOther, insecureOther >>

-----------------------------------------------------------------------------
(* Bounds of the model *)

MaxArgs == 2
MaxParts == 3
MaxCalls == 2
\* how many of the string flags other than the two credentials are given on
\* one command line
MaxChanged == 1

-----------------------------------------------------------------------------
(* String literals of the source *)

EmptyStr == << >>
Hyphen == "-"
OSPID == << "o", "s", "p", "i", "d" >>
FlagPrefix == << "-", "-" >>
SubmitMarker == << "-", "-", "s", "u", "b", "m", "i", "t" >>
TrueText == << "t", "r", "u", "e" >>
FalseText == << "f", "a", "l", "s", "e" >>
\* the Pyxis environments and their hosts, a host written as one letter
DefaultPyxisEnv == << "p", "r", "o", "d" >>
UatPyxisEnv == << "u", "a", "t" >>
QaPyxisEnv == << "q", "a" >>
StagePyxisEnv == << "s", "t", "a", "g", "e" >>
DefaultPyxisHost == << "p" >>
UatPyxisHost == << "u" >>
QaPyxisHost == << "q" >>
StagePyxisHost == << "s" >>
\* rt.GOARCH of the build
GOARCH == << "a", "m", "d", "6", "4" >>
\* the defaults the root command gives the log file and the artifacts directory
DefaultLogFile == << "p", "r", "e", "f", "l", "i", "g", "h", "t", ".", "l", "o", "g" >>
DefaultArtifactsDir == << "a", "r", "t", "i", "f", "a", "c", "t", "s" >>
\* the persistent flags of the parent commands: docker-config of `check`;
\* artifacts, logfile and loglevel of the root command
PersistentFlagNames == { "docker-config", "artifacts", "logfile", "loglevel" }

(* Errors *)
NoError == "nil"
ArgumentError == "a container image positional argument is required"
MissingProjectID == "certification Project ID must be specified when --submit is present"
MissingToken == "pyxis API Token must be specified when --submit is present"
EmptyProjectID == "certification Project ID cannot be empty when --submit is present"
EmptyToken == "pyxis API Token cannot be empty when --submit is present"
MalformedCredential == "pyxis API token and certification ID are required when --submit is present"
MalformedIdentifier == "certification project id is improperly formatted"
IndexPanic == "panic: index out of range [1] with length 1"
MutuallyExclusive == "flags in the group [submit insecure] are mutually exclusive"
ContextError == "invalid logging configuration"
ConfigurationError == "invalid configuration"
ArtifactsError == "artifacts writer error"
FormatterError == "formatter error"
CheckExecutionError == "runpreflight error"

-----------------------------------------------------------------------------
(* strings.HasPrefix, strings.Contains, strings.Split on a one-character
   separator *)

HasPrefix(s, p) ==
    /\ Len(s) >= Len(p)
    /\ SubSeq(s, 1, Len(p)) = p

Contains(s, sub) ==
    \E i \in 0 .. Len(s) :
        /\ i + Len(sub) <= Len(s)
        /\ SubSeq(s, i + 1, i + Len(sub)) = sub

RECURSIVE SplitFrom(_, _, _, _)
SplitFrom(s, sep, i, cur) ==
    IF i > Len(s) THEN << cur >>
    ELSE IF s[i] = sep THEN << cur >> \o SplitFrom(s, sep, i + 1, << >>)
    ELSE SplitFrom(s, sep, i + 1, Append(cur, s[i]))

Split(s, sep) == SplitFrom(s, sep, 1, << >>)

RECURSIVE Join(_, _)
Join(parts, sep) ==
    IF Len(parts) = 0 THEN << >>
    ELSE IF Len(parts) = 1 THEN parts[1]
    ELSE parts[1] \o << sep >> \o Join(Tail(parts), sep)

-----------------------------------------------------------------------------
(* The layered configuration (viper): an explicit Set wins over a changed
   flag, a changed flag over environment/file; a key no layer holds reads as
   the bound flag's current value. *)

Unchanged == [changed |-> FALSE, val |-> EmptyStr]
Unset == [set |-> FALSE, val |-> EmptyStr]
UnsetBool == [set |-> FALSE, val |-> FALSE]

IsSet(override, flag, other) ==
    override.set \/ flag.changed \/ other.set

GetString(override, flag, other) ==
    IF override.set THEN override.val
    ELSE IF flag.changed THEN flag.val
    ELSE IF other.set THEN other.val
    ELSE flag.val

GetBool(flag, other) ==
    IF flag.changed THEN flag.val
    ELSE IF other.set THEN other.val
    ELSE flag.val

\* the --submit flag: Changed as parsed, Value stored in the package variable
SubmitFlag == [changed |-> submitChanged, val |-> submit]

ProjectID == GetString(idOverride, idFlag, idOther)
APIToken == GetString(Unset, tokFlag, tokOther)

\* f.Value.String() of a bool flag
BoolText(b) == IF b THEN TrueText ELSE FalseText

-----------------------------------------------------------------------------
(* checkContainerPositionalArgs *)

\* cmd.Flags().VisitAll: some changed flag's text contains "--submit"; the
\* flags visited are the seven the command declares and the persistent flags
\* merged in from its parents (cobra's own --help ends the command before
\* the arguments are validated, so it is never changed here)
ScanFindsSubmit ==
    \/ submitChanged /\ Contains(BoolText(submit), SubmitMarker)
    \/ insecureFlag.changed /\ Contains(BoolText(insecureFlag.val), SubmitMarker)
    \/ tokFlag.changed /\ Contains(tokFlag.val, SubmitMarker)
    \/ hostFlag.changed /\ Contains(hostFlag.val, SubmitMarker)
    \/ envFlag.changed /\ Contains(envFlag.val, SubmitMarker)
    \/ idFlag.changed /\ Contains(idFlag.val, SubmitMarker)
    \/ platformFlag.changed /\ Contains(platformFlag.val, SubmitMarker)
    \/ \E n \in PersistentFlagNames :
           persistentFlags[n].changed /\ Contains(persistentFlags[n].val, SubmitMarker)

\* faulty variant: the token's missing-check placed before the identifier's
SubmissionPrerequisitesTokenFirst ==
    IF ~tokFlag.changed /\ ~IsSet(Unset, tokFlag, tokOther)
    THEN MissingToken
    ELSE IF ~idFlag.changed /\ ~IsSet(idOverride, idFlag, idOther)
    THEN MissingProjectID
    ELSE IF idFlag.changed /\ ProjectID = EmptyStr
    THEN EmptyProjectID
    ELSE IF tokFlag.changed /\ APIToken = EmptyStr
    THEN EmptyToken
    ELSE IF HasPrefix(APIToken, FlagPrefix) \/ HasPrefix(ProjectID, FlagPrefix)
    THEN MalformedCredential
    ELSE NoError

\* faulty variant: the "--" prefix looked for in the token alone
SubmissionPrerequisitesTokenPrefixOnly ==
    IF ~idFlag.changed /\ ~IsSet(idOverride, idFlag, idOther)
    THEN MissingProjectID
    ELSE IF ~tokFlag.changed /\ ~IsSet(Unset, tokFlag, tokOther)
    THEN MissingToken
    ELSE IF idFlag.changed /\ ProjectID = EmptyStr
    THEN EmptyProjectID
    ELSE IF tokFlag.changed /\ APIToken = EmptyStr
    THEN EmptyToken
    ELSE IF HasPrefix(APIToken, FlagPrefix)
    THEN MalformedCredential
    ELSE NoError

\* the `if submit { ... }` block: the five checks, first failure returned
SubmissionPrerequisites ==
    IF ~idFlag.changed /\ ~IsSet(idOverride, idFlag, idOther)
    THEN MissingProjectID
    ELSE IF ~tokFlag.changed /\ ~IsSet(Unset, tokFlag, tokOther)
    THEN MissingToken
    ELSE IF idFlag.changed /\ ProjectID = EmptyStr
    THEN EmptyProjectID
    ELSE IF tokFlag.changed /\ APIToken = EmptyStr
    THEN EmptyToken
    ELSE IF HasPrefix(APIToken, FlagPrefix) \/ HasPrefix(ProjectID, FlagPrefix)
    THEN MalformedCredential
    ELSE NoError

\* faulty variant: only a missing argument is rejected (len(args) < 1)
checkContainerPositionalArgsAtLeastOne ==
    IF nargs < 1
    THEN [err |-> ArgumentError, submit |-> submit]
    ELSE LET scanned == IF ScanFindsSubmit THEN TRUE ELSE submit
         IN  [err |-> IF scanned THEN SubmissionPrerequisites ELSE NoError,
              submit |-> scanned]

\* faulty variant: the credential checks run whether or not submit is set
checkContainerPositionalArgsAlwaysChecks ==
    IF nargs # 1
    THEN [err |-> ArgumentError, submit |-> submit]
    ELSE LET scanned == IF ScanFindsSubmit THEN TRUE ELSE submit
         IN  [err |-> SubmissionPrerequisites, submit |-> scanned]

\* faulty variant: the flag scan left out, only the submit variable decides
checkContainerPositionalArgsNoScan ==
    IF nargs # 1
    THEN [err |-> ArgumentError, submit |-> submit]
    ELSE [err |-> IF submit THEN SubmissionPrerequisites ELSE NoError,
          submit |-> submit]

\* faulty variant: the flags scanned before the arguments are counted
checkContainerPositionalArgsScanFirst ==
    LET scanned == IF ScanFindsSubmit THEN TRUE ELSE submit
    IN  IF nargs # 1
        THEN [err |-> ArgumentError, submit |-> scanned]
        ELSE [err |-> IF scanned THEN SubmissionPrerequisites ELSE NoError,
              submit |-> scanned]

checkContainerPositionalArgs ==
    IF nargs # 1
    THEN [err |-> ArgumentError, submit |-> submit]
    ELSE LET scanned == IF ScanFindsSubmit THEN TRUE ELSE submit
         IN  [err |-> IF scanned THEN SubmissionPrerequisites ELSE NoError,
              submit |-> scanned]

-----------------------------------------------------------------------------
(* validateCertificationProjectID *)

\* faulty variant: the part count compared with 3 (len(parts) > 3)
validateCertificationProjectIDMoreThanThree ==
    LET parts == Split(ProjectID, Hyphen)
    IN  IF Len(parts) > 3
        THEN [err |-> MalformedIdentifier, override |-> idOverride]
        ELSE IF parts[1] = OSPID
        THEN IF Len(parts) < 2
             THEN [err |-> IndexPanic, override |-> idOverride]
             ELSE [err |-> NoError, override |-> [set |-> TRUE, val |-> parts[2]]]
        ELSE [err |-> NoError, override |-> idOverride]

\* faulty variant: the first part written back instead of the second
validateCertificationProjectIDFirstPart ==
    LET parts == Split(ProjectID, Hyphen)
    IN  IF Len(parts) > 2
        THEN [err |-> MalformedIdentifier, override |-> idOverride]
        ELSE IF parts[1] = OSPID
        THEN IF Len(parts) < 2
             THEN [err |-> IndexPanic, override |-> idOverride]
             ELSE [err |-> NoError, override |-> [set |-> TRUE, val |-> parts[1]]]
        ELSE [err |-> NoError, override |-> idOverride]

\* faulty variant: the legacy form accepted but not written back
validateCertificationProjectIDNoRewrite ==
    LET parts == Split(ProjectID, Hyphen)
    IN  IF Len(parts) > 2
        THEN [err |-> MalformedIdentifier, override |-> idOverride]
        ELSE IF parts[1] = OSPID
        THEN IF Len(parts) < 2
             THEN [err |-> IndexPanic, override |-> idOverride]
             ELSE [err |-> NoError, override |-> idOverride]
        ELSE [err |-> NoError, override |-> idOverride]

validateCertificationProjectID ==
    LET parts == Split(ProjectID, Hyphen)
    IN  IF Len(parts) > 2
        THEN [err |-> MalformedIdentifier, override |-> idOverride]
        ELSE IF parts[1] = OSPID
        THEN IF Len(parts) < 2
             THEN [err |-> IndexPanic, override |-> idOverride]
             ELSE [err |-> NoError, override |-> [set |-> TRUE, val |-> parts[2]]]
        ELSE [err |-> NoError, override |-> idOverride]

-----------------------------------------------------------------------------
(* checkContainerRunE and what it calls *)

NoCfg ==
    [made |-> FALSE, CertificationProjectID |-> EmptyStr,
     PyxisAPIToken |-> EmptyStr, PyxisHost |-> EmptyStr,
     Platform |-> EmptyStr, DockerConfig |-> EmptyStr,
     LogFile |-> EmptyStr, Artifacts |-> EmptyStr,
     Submit |-> FALSE, Insecure |-> FALSE]

\* the host of a Pyxis environment: a host override wins, an environment that
\* is not known reads as the default one
PyxisHostLookup(env, hostOverride) ==
    IF hostOverride # EmptyStr THEN hostOverride
    ELSE IF env = UatPyxisEnv THEN UatPyxisHost
    ELSE IF env = QaPyxisEnv THEN QaPyxisHost
    ELSE IF env = StagePyxisEnv THEN StagePyxisHost
    ELSE DefaultPyxisHost

\* a key with a viper default: the changed flag, else the default
GetStringDefault(flag, default) ==
    IF flag.changed THEN flag.val ELSE default

\* runtime.NewConfigFrom(*viper.Instance())
NewConfigFrom ==
    [made |-> TRUE,
     CertificationProjectID |-> ProjectID,
     PyxisAPIToken |-> APIToken,
     PyxisHost |-> PyxisHostLookup(GetString(Unset, envFlag, Unset),
                                   GetString(Unset, hostFlag, Unset)),
     Platform |-> GetString(Unset, platformFlag, Unset),
     DockerConfig |-> GetString(Unset, persistentFlags["docker-config"], Unset),
     LogFile |-> GetStringDefault(persistentFlags["logfile"], DefaultLogFile),
     Artifacts |-> GetStringDefault(persistentFlags["artifacts"], DefaultArtifactsDir),
     Submit |-> GetBool(SubmitFlag, submitOther),
     Insecure |-> GetBool(insecureFlag, insecureOther)]

Option(name, a, b) == [opt |-> name, a |-> a, b |-> b]

\* faulty variant: insecure mode appends its option and leaves Submit alone
generateContainerCheckOptionsKeepsSubmit(c) ==
    LET base == << Option("WithCertificationProject", c.CertificationProjectID, c.PyxisAPIToken),
                   Option("WithDockerConfigJSONFromFile", c.DockerConfig, EmptyStr),
                   Option("WithPyxisHost", c.PyxisHost, EmptyStr),
                   Option("WithPlatform", c.Platform, EmptyStr) >>
        auth == IF c.PyxisAPIToken # EmptyStr /\ c.CertificationProjectID # EmptyStr
                THEN Append(base, Option("WithCertificationProject",
                                         c.CertificationProjectID, c.PyxisAPIToken))
                ELSE base
    IN  IF c.Insecure
        THEN [cfg |-> c,
              opts |-> Append(auth, Option("WithInsecureConnection", EmptyStr, EmptyStr))]
        ELSE [cfg |-> c, opts |-> auth]

\* faulty variant: the second pairing added when either credential is present
generateContainerCheckOptionsEitherCredential(c) ==
    LET base == << Option("WithCertificationProject", c.CertificationProjectID, c.PyxisAPIToken),
                   Option("WithDockerConfigJSONFromFile", c.DockerConfig, EmptyStr),
                   Option("WithPyxisHost", c.PyxisHost, EmptyStr),
                   Option("WithPlatform", c.Platform, EmptyStr) >>
        auth == IF c.PyxisAPIToken # EmptyStr \/ c.CertificationProjectID # EmptyStr
                THEN Append(base, Option("WithCertificationProject",
                                         c.CertificationProjectID, c.PyxisAPIToken))
                ELSE base
    IN  IF c.Insecure
        THEN [cfg |-> [c EXCEPT !.Submit = FALSE],
              opts |-> Append(auth, Option("WithInsecureConnection", EmptyStr, EmptyStr))]
        ELSE [cfg |-> c, opts |-> auth]

\* faulty variant: Submit cleared whether or not insecure is set
generateContainerCheckOptionsAlwaysClearsSubmit(c) ==
    LET base == << Option("WithCertificationProject", c.CertificationProjectID, c.PyxisAPIToken),
                   Option("WithDockerConfigJSONFromFile", c.DockerConfig, EmptyStr),
                   Option("WithPyxisHost", c.PyxisHost, EmptyStr),
                   Option("WithPlatform", c.Platform, EmptyStr) >>
        auth == IF c.PyxisAPIToken # EmptyStr /\ c.CertificationProjectID # EmptyStr
                THEN Append(base, Option("WithCertificationProject",
                                         c.CertificationProjectID, c.PyxisAPIToken))
                ELSE base
    IN  [cfg |-> [c EXCEPT !.Submit = FALSE],
         opts |-> IF c.Insecure
                  THEN Append(auth, Option("WithInsecureConnection", EmptyStr, EmptyStr))
                  ELSE auth]

generateContainerCheckOptions(c) ==
    LET base == << Option("WithCertificationProject", c.CertificationProjectID, c.PyxisAPIToken),
                   Option("WithDockerConfigJSONFromFile", c.DockerConfig, EmptyStr),
                   Option("WithPyxisHost", c.PyxisHost, EmptyStr),
                   Option("WithPlatform", c.Platform, EmptyStr) >>
        auth == IF c.PyxisAPIToken # EmptyStr /\ c.CertificationProjectID # EmptyStr
                THEN Append(base, Option("WithCertificationProject",
                                         c.CertificationProjectID, c.PyxisAPIToken))
                ELSE base
    IN  IF c.Insecure
        THEN [cfg |-> [c EXCEPT !.Submit = FALSE],
              opts |-> Append(auth, Option("WithInsecureConnection", EmptyStr, EmptyStr))]
        ELSE [cfg |-> c, opts |-> auth]

\* lib.NewPyxisClient(ctx, id, token, host): the client for these arguments
NewPyxisClient(id, token, host) ==
    [id |-> id, token |-> token, host |-> host]

NoSubmitter ==
    [kind |-> "none", id |-> EmptyStr, dockerConfig |-> EmptyStr,
     logFile |-> EmptyStr]

\* lib.ResolveSubmitter(pc, id, dockerConfig, logFile): the submitters the
\* call can resolve.  The result is a function of these four arguments and
\* of nothing else the command hands over (the submit value is not among
\* them); which implementation it is for given arguments is not fixed here,
\* so either is possible: the no-op submitter, or the real one for the
\* client, the identifier, the docker config and the log file.
ResolveSubmitter(client, id, dockerConfig, logFile) ==
    { [kind |-> "noop", id |-> EmptyStr, dockerConfig |-> EmptyStr,
       logFile |-> EmptyStr],
      [kind |-> "container", id |-> id, dockerConfig |-> dockerConfig,
       logFile |-> logFile] }

NoRun == [calls |-> 0, SubmitResults |-> FALSE, submitter |-> NoSubmitter]

-----------------------------------------------------------------------------
(* Inputs of a run: the command line and the environment/file layer *)

ChangedTo(vals) == { [changed |-> TRUE, val |-> v] : v \in vals }
SetTo(vals) == { [set |-> TRUE, val |-> v] : v \in vals }

IdFlagValues ==
    { EmptyStr, << "7" >>, OSPID \o << "-", "7" >>, OSPID \o << "-" >>, OSPID,
      << "f", "-", "7" >>, << "-", "-", "7" >> }
IdOtherValues == { EmptyStr, << "7" >> }
TokFlagValues == { EmptyStr, << "t" >>, << "-", "-", "t" >>, SubmitMarker }
TokOtherValues == { EmptyStr, << "t" >> }
HostFlagValues == { << "h" >>, << "h" >> \o SubmitMarker }
EnvFlagValues == { UatPyxisEnv, SubmitMarker }
PlatformFlagValues == { << "a", "r", "m" >>, SubmitMarker }
PersistentFlagValues == { << "x" >> \o SubmitMarker }

EnvUnchanged == [changed |-> FALSE, val |-> DefaultPyxisEnv]
PlatformUnchanged == [changed |-> FALSE, val |-> GOARCH]
PersistentUnchanged == [n \in PersistentFlagNames |-> Unchanged]

\* the string flags that checkContainerPositionalArgs reads only in its scan
ScanOnlyFlags ==
    { hostFlag, envFlag, platformFlag }
        \cup { persistentFlags[n] : n \in PersistentFlagNames }

\* how many of them the command line gives
NumChanged ==
    (IF hostFlag.changed THEN 1 ELSE 0)
    + (IF envFlag.changed THEN 1 ELSE 0)
    + (IF platformFlag.changed THEN 1 ELSE 0)
    + Cardinality({ n \in PersistentFlagNames : persistentFlags[n].changed })

Idle ==
    /\ err = NoError
    /\ cfg = NoCfg
    /\ opts = << >>
    /\ pyxisID = EmptyStr
    /\ submitter = NoSubmitter
    /\ silenceUsage = FALSE
    /\ runner = NoRun
    /\ trace = << >>
    /\ calls = 0
    /\ idOverride = Unset

\* the command as constructed, flags parsed, about to validate its arguments
Init ==
    /\ pc = "args"
    /\ nargs \in 0 .. MaxArgs
    /\ idFlag \in {Unchanged} \cup ChangedTo(IdFlagValues)
    /\ tokFlag \in {Unchanged} \cup ChangedTo(TokFlagValues)
    /\ hostFlag \in {Unchanged} \cup ChangedTo(HostFlagValues)
    /\ envFlag \in {EnvUnchanged} \cup ChangedTo(EnvFlagValues)
    /\ platformFlag \in {PlatformUnchanged} \cup ChangedTo(PlatformFlagValues)
    /\ persistentFlags \in
           [PersistentFlagNames -> {Unchanged} \cup ChangedTo(PersistentFlagValues)]
    /\ NumChanged <= MaxChanged
    /\ submitChanged \in BOOLEAN
    /\ submit \in IF submitChanged THEN BOOLEAN ELSE {FALSE}
    /\ insecureFlag \in {[changed |-> FALSE, val |-> FALSE]} \cup ChangedTo(BOOLEAN)
    /\ idOther \in {Unset} \cup SetTo(IdOtherValues)
    /\ tokOther \in {Unset} \cup SetTo(TokOtherValues)
    /\ submitOther \in {UnsetBool} \cup SetTo({TRUE})
    /\ insecureOther \in {UnsetBool} \cup SetTo({TRUE})
    /\ Idle

Fail(e) ==
    /\ err' = e
    /\ pc' = "failed"

\* cobra: c.ValidateArgs -> Args
ValidateArgs ==
    /\ pc = "args"
    /\ LET r == checkContainerPositionalArgs
       IN  /\ submit' = r.submit
           /\ err' = r.err
           /\ pc' = IF r.err = NoError THEN "prerun" ELSE "failed"
    /\ trace' = Append(trace, "args")
    /\ UNCHANGED << inputs, idOverride, cfg, opts, pyxisID, submitter,
                    silenceUsage, runner, calls >>

\* cobra: c.PreRunE
PreRunE ==
    /\ pc = "prerun"
    /\ LET r == validateCertificationProjectID
       IN  /\ idOverride' = r.override
           /\ err' = r.err
           /\ pc' = IF r.err = NoError THEN "flaggroups" ELSE "failed"
    /\ trace' = Append(trace, "prerun")
    /\ UNCHANGED << inputs, submit, cfg, opts, pyxisID, submitter,
                    silenceUsage, runner, calls >>

\* faulty variant: the flag group never registered
FlagGroupsErrorNone == NoError

\* MarkFlagsMutuallyExclusive("submit", "insecure"), validated before RunE
FlagGroupsError ==
    IF submitChanged /\ insecureFlag.changed THEN MutuallyExclusive ELSE NoError

ValidateFlagGroups ==
    /\ pc = "flaggroups"
    /\ err' = FlagGroupsError
    /\ pc' = IF FlagGroupsError = NoError THEN "logger" ELSE "failed"
    /\ trace' = Append(trace, "flaggroups")
    /\ UNCHANGED << inputs, submit, idOverride, cfg, opts, pyxisID, submitter,
                    silenceUsage, runner, calls >>

\* faulty variant: the error of logr.FromContext recorded but not returned
GetLoggerContinues ==
    /\ pc = "logger"
    /\ \E ok \in BOOLEAN :
           /\ pc' = "config"
           /\ err' = IF ok THEN err ELSE ContextError
    /\ trace' = Append(trace, "logger")
    /\ UNCHANGED << inputs, submit, idOverride, cfg, opts, pyxisID, submitter,
                    silenceUsage, runner, calls >>

\* logr.FromContext(ctx)
GetLogger ==
    /\ pc = "logger"
    /\ \E ok \in BOOLEAN :
           IF ok THEN pc' = "config" /\ err' = err ELSE Fail(ContextError)
    /\ trace' = Append(trace, "logger")
    /\ UNCHANGED << inputs, submit, idOverride, cfg, opts, pyxisID, submitter,
                    silenceUsage, runner, calls >>

\* cfg, err := runtime.NewConfigFrom(*viper.Instance())
ResolveConfig ==
    /\ pc = "config"
    /\ \E ok \in BOOLEAN :
           IF ok
           THEN pc' = "writer" /\ err' = err /\ cfg' = NewConfigFrom
           ELSE Fail(ConfigurationError) /\ cfg' = cfg
    /\ trace' = Append(trace, "config")
    /\ UNCHANGED << inputs, submit, idOverride, opts, pyxisID, submitter,
                    silenceUsage, runner, calls >>

\* artifacts.NewFilesystemWriter, artifacts.ContextWithWriter
NewArtifactsWriter ==
    /\ pc = "writer"
    /\ \E ok \in BOOLEAN :
           IF ok THEN pc' = "formatter" /\ err' = err ELSE Fail(ArtifactsError)
    /\ trace' = Append(trace, "writer")
    /\ UNCHANGED << inputs, submit, idOverride, cfg, opts, pyxisID, submitter,
                    silenceUsage, runner, calls >>

\* formatters.NewByName(formatters.DefaultFormat)
SelectFormatter ==
    /\ pc = "formatter"
    /\ \E ok \in BOOLEAN :
           IF ok THEN pc' = "options" /\ err' = err ELSE Fail(FormatterError)
    /\ trace' = Append(trace, "formatter")
    /\ UNCHANGED << inputs, submit, idOverride, cfg, opts, pyxisID, submitter,
                    silenceUsage, runner, calls >>

\* opts := generateContainerCheckOptions(cfg); container.NewCheck(image, opts...)
AssembleOptions ==
    /\ pc = "options"
    /\ LET r == generateContainerCheckOptions(cfg)
       IN  /\ cfg' = r.cfg
           /\ opts' = r.opts
    /\ pc' = "submitter"
    /\ trace' = Append(trace, "options")
    /\ UNCHANGED << inputs, submit, idOverride, err, pyxisID, submitter,
                    silenceUsage, runner, calls >>

\* lib.NewPyxisClient, lib.ResolveSubmitter
ResolveResultSubmitter ==
    /\ pc = "submitter"
    /\ pyxisID' = cfg.CertificationProjectID
    /\ submitter' \in ResolveSubmitter(
                        NewPyxisClient(cfg.CertificationProjectID,
                                       cfg.PyxisAPIToken, cfg.PyxisHost),
                        cfg.CertificationProjectID, cfg.DockerConfig,
                        cfg.LogFile)
    /\ pc' = "run"
    /\ trace' = Append(trace, "submitter")
    /\ UNCHANGED << inputs, submit, idOverride, err, cfg, opts, silenceUsage,
                    runner, calls >>

\* runpreflight(ctx, checkcontainer.Run, cli.CheckConfig{...}, formatter,
\* writer, resultSubmitter): the runner is injected into the command; what
\* it is invoked with is recorded
RunPreflight(config, resultSubmitter) ==
    [calls |-> runner.calls + 1,
     SubmitResults |-> config.SubmitResults,
     submitter |-> resultSubmitter]

\* cmd.SilenceUsage = true; return runpreflight(...)
InvokeRunner ==
    /\ pc = "run"
    /\ silenceUsage' = TRUE
    /\ \E ok \in BOOLEAN :
           /\ runner' = RunPreflight([SubmitResults |-> cfg.Submit], submitter)
           /\ err' = IF ok THEN NoError ELSE CheckExecutionError
           /\ pc' = IF ok THEN "done" ELSE "failed"
    /\ trace' = Append(trace, "run")
    /\ UNCHANGED << inputs, submit, idOverride, cfg, opts, pyxisID, submitter,
                    calls >>

Next ==
    \/ ValidateArgs
    \/ PreRunE
    \/ ValidateFlagGroups
    \/ GetLogger
    \/ ResolveConfig
    \/ NewArtifactsWriter
    \/ SelectFormatter
    \/ AssembleOptions
    \/ ResolveResultSubmitter
    \/ InvokeRunner

Spec == Init /\ [][Next]_vars

-----------------------------------------------------------------------------
(* validateCertificationProjectID called on its own, repeatedly, against the
   process-wide viper instance (as the command's tests call it): the
   identifier ranges over every string of at most MaxParts hyphen-separated
   parts. *)

PartValues == { EmptyStr, OSPID, << "7" >>, << "f" >> }

Identifiers ==
    { Join(ps, Hyphen) : ps \in UNION { [1 .. n -> PartValues] : n \in 1 .. MaxParts } }

InitNorm ==
    /\ pc = "unit"
    /\ nargs = 1
    /\ \/ idFlag \in ChangedTo(Identifiers) /\ idOther = Unset
       \/ idFlag = Unchanged /\ idOther \in SetTo(Identifiers)
    /\ tokFlag = Unchanged
    /\ hostFlag = Unchanged
    /\ envFlag = EnvUnchanged
    /\ platformFlag = PlatformUnchanged
    /\ persistentFlags = PersistentUnchanged
    /\ submitChanged = FALSE
    /\ submit = FALSE
    /\ insecureFlag = [changed |-> FALSE, val |-> FALSE]
    /\ tokOther = Unset
    /\ submitOther = UnsetBool
    /\ insecureOther = UnsetBool
    /\ Idle

NormCall ==
    /\ pc = "unit"
    /\ calls < MaxCalls
    /\ err # IndexPanic
    /\ LET r == validateCertificationProjectID
       IN  /\ idOverride' = r.override
           /\ err' = r.err
    /\ calls' = calls + 1
    /\ trace' = Append(trace, "prerun")
    /\ UNCHANGED << pc, inputs, submit, cfg, opts, pyxisID, submitter,
                    silenceUsage, runner >>

NextNorm == NormCall

SpecNorm == InitNorm /\ [][NextNorm]_vars

-----------------------------------------------------------------------------
(* Properties *)

\* checkContainerPositionalArgs has just returned
ArgsReturned == trace = << "args" >>

\* the stage has been executed in this run
Ran(stage) == \E i \in 1 .. Len(trace) : trace[i] = stage

NumHyphens(s) == Cardinality({ i \in 1 .. Len(s) : s[i] = Hyphen })

StartsWithTwoHyphens(s) == Len(s) >= 2 /\ s[1] = Hyphen /\ s[2] = Hyphen

\* the values the command line and the environment/file resolve to
InputID == IF idFlag.changed THEN idFlag.val ELSE idOther.val
InputToken == IF tokFlag.changed THEN tokFlag.val ELSE tokOther.val

MissingIDCase == ~idFlag.changed /\ ~idOther.set
MissingTokenCase == ~tokFlag.changed /\ ~tokOther.set
EmptyIDCase == idFlag.changed /\ idFlag.val = EmptyStr
EmptyTokenCase == tokFlag.changed /\ tokFlag.val = EmptyStr
PrefixedCase == StartsWithTwoHyphens(InputID) \/ StartsWithTwoHyphens(InputToken)

\* C1: with one positional argument and submission requested (the submit
\* variable true once the flags were scanned), the error returned by
\* checkContainerPositionalArgs is that of the first of the five checks, in
\* the order missing id, missing token, empty id, empty token, "--" prefix,
\* whose condition holds; in particular a project id set by no source gives
\* the project-id error whatever the state of the token.
C1_FirstFailingCheckWins ==
    (ArgsReturned /\ nargs = 1 /\ submit) =>
        /\ MissingIDCase => err = MissingProjectID
        /\ (~MissingIDCase /\ MissingTokenCase) => err = MissingToken
        /\ (~MissingIDCase /\ ~MissingTokenCase /\ EmptyIDCase) => err = EmptyProjectID
        /\ (~MissingIDCase /\ ~MissingTokenCase /\ ~EmptyIDCase /\ EmptyTokenCase)
               => err = EmptyToken
        /\ (~MissingIDCase /\ ~MissingTokenCase /\ ~EmptyIDCase /\ ~EmptyTokenCase
                /\ PrefixedCase) => err = MalformedCredential

\* C1 witness: submit given, the project id set nowhere, the token set (and
\* "--"-prefixed, so that a later check would fail too): the project-id error.
C1_Witness ==
    /\ ArgsReturned /\ nargs = 1 /\ submitChanged /\ submit
    /\ MissingIDCase
    /\ tokFlag = [changed |-> TRUE, val |-> << "-", "-", "t" >>]
    /\ err = MissingProjectID

\* C2: every positional-argument count other than one fails with the
\* ArgumentError, whatever the flags and the configuration are, and before the
\* flag scan (the submit variable is not set by it); with exactly one
\* argument the error is never the ArgumentError.
C2_ExactlyOneArgument ==
    ArgsReturned =>
        /\ nargs # 1 => /\ err = ArgumentError
                        /\ pc = "failed"
                        /\ ~submitChanged => ~submit
        /\ nargs = 1 => err # ArgumentError

\* C2 witness: two arguments and a changed flag whose value holds "--submit":
\* the ArgumentError, and submit still false.
C2_Witness ==
    /\ ArgsReturned /\ nargs = 2
    /\ ScanFindsSubmit /\ ~submitChanged /\ ~submit
    /\ err = ArgumentError

\* C3: an identifier with more than two hyphen-separated parts (two hyphens
\* or more) makes validateCertificationProjectID return the
\* MalformedIdentifierError and leaves the configured identifier as it was.
C3_MoreThanTwoPartsRejected ==
    (pc = "unit" /\ calls >= 1 /\ NumHyphens(InputID) >= 2) =>
        /\ err = MalformedIdentifier
        /\ idOverride = Unset
        /\ ProjectID = InputID

\* C3 witness: "ospid-7-f" was validated and rejected.
C3_Witness ==
    /\ pc = "unit" /\ calls = 1
    /\ InputID = OSPID \o << "-", "7", "-", "f" >>
    /\ err = MalformedIdentifier

\* C4: a two-part identifier "ospid-<x>" is rewritten to "<x>", a two-part
\* identifier whose first part is not "ospid" is left exactly as it was, and
\* no error is returned in either case.
C4_LegacyRewritten ==
    (pc = "unit" /\ calls = 1 /\ NumHyphens(InputID) = 1) =>
        /\ err = NoError
        /\ IF HasPrefix(InputID, OSPID \o << Hyphen >>)
           THEN ProjectID = SubSeq(InputID, Len(OSPID) + 2, Len(InputID))
           ELSE ProjectID = InputID /\ idOverride = Unset

\* C4 witness: "ospid-7" became "7".
C4_Witness ==
    /\ pc = "unit" /\ calls = 1
    /\ InputID = OSPID \o << "-", "7" >>
    /\ err = NoError
    /\ ProjectID = << "7" >>

\* C5: for every identifier that is a single hyphen-free part (the empty
\* string and "ospid" included) validateCertificationProjectID completes
\* without error or crash and leaves the configured identifier unchanged.
\* Violated: "ospid" splits into one part, which equals the legacy marker,
\* and parts[1] is read out of range.
C5_SinglePartPasses ==
    (pc = "unit" /\ calls >= 1 /\ NumHyphens(InputID) = 0) =>
        /\ err = NoError
        /\ ProjectID = InputID
        /\ idOverride = Unset

\* C6: normalization is idempotent: once validateCertificationProjectID has
\* succeeded, running it again succeeds and leaves the identifier as the
\* first run left it.  Violated: "ospid-ospid" becomes "ospid", on which the
\* second run crashes (C5).
C6_Idempotent ==
    [][(pc = "unit" /\ calls >= 1 /\ err = NoError)
          => (err' = NoError /\ ProjectID' = ProjectID)]_vars

\* the insecure-connection option is among the assembled options
HasInsecureOption ==
    \E i \in 1 .. Len(opts) : opts[i].opt = "WithInsecureConnection"

\* C7: whenever insecure is set in the resolved configuration, the options
\* assembled include the insecure-connection option and the configuration's
\* submit value is false from then on, so the runner is never invoked with
\* SubmitResults true and insecure mode on, whichever source set submit.
C7_InsecureForcesSubmitOff ==
    /\ (Ran("options") /\ cfg.Insecure) => (HasInsecureOption /\ ~cfg.Submit)
    /\ (runner.calls > 0 /\ cfg.Insecure) => ~runner.SubmitResults

\* C7 witness: submit true from the environment, --insecure on the command
\* line, and the runner invoked with SubmitResults false.
C7_Witness ==
    /\ runner.calls = 1
    /\ insecureFlag = [changed |-> TRUE, val |-> TRUE]
    /\ ~submitChanged /\ submitOther = [set |-> TRUE, val |-> TRUE]
    /\ HasInsecureOption
    /\ ~runner.SubmitResults

\* C8: with --submit and --insecure both given on the command line the
\* command is rejected before checkContainerRunE starts: no stage of it runs,
\* no configuration is resolved and the runner is never invoked.
C8_SubmitInsecureExclusive ==
    (submitChanged /\ insecureFlag.changed) =>
        /\ ~Ran("logger") /\ ~Ran("config") /\ ~Ran("writer") /\ ~Ran("run")
        /\ pc \in { "args", "prerun", "flaggroups", "failed" }
        /\ cfg = NoCfg
        /\ runner.calls = 0

\* C8 witness: both flags given, arguments and identifier valid, and the run
\* ended by the flag-group validation.
C8_Witness ==
    /\ submitChanged /\ insecureFlag.changed
    /\ Ran("flaggroups") /\ pc = "failed"
    /\ err = MutuallyExclusive

\* C9: when submission is requested and none of the missing/empty checks
\* fails, a resolved project identifier or API token that begins with "--"
\* makes checkContainerPositionalArgs fail with the MalformedCredentialError.
C9_FlagPrefixRejected ==
    ( /\ ArgsReturned /\ nargs = 1 /\ submit
      /\ ~MissingIDCase /\ ~MissingTokenCase /\ ~EmptyIDCase /\ ~EmptyTokenCase
      /\ \/ HasPrefix(ProjectID, FlagPrefix)
         \/ HasPrefix(APIToken, FlagPrefix) )
    => (err = MalformedCredential /\ pc = "failed")

\* C9 witness: the identifier "--7" with a well-formed token is rejected.
C9_Witness ==
    /\ ArgsReturned /\ nargs = 1 /\ submit
    /\ idFlag = [changed |-> TRUE, val |-> << "-", "-", "7" >>]
    /\ InputToken = << "t" >>
    /\ err = MalformedCredential

\* neither the command line nor the environment/file asks for insecure mode
InsecureOff == ~GetBool(insecureFlag, insecureOther)

\* C10 as stated, in the part the command itself decides: with one
\* argument, submit false and insecure false, validation passes whatever the
\* project identifier and the token are, and the runner is invoked with
\* SubmitResults false.  (The claim goes on to name the submitter resolved;
\* that is the result of lib.ResolveSubmitter and is left out here.)
\* Violated: a changed flag whose value contains "--submit" (a token
\* "--submit") turns the submit variable on and the credential checks run.
C10_NoSubmitPassesUnchecked ==
    /\ [][(pc = "args" /\ nargs = 1 /\ ~GetBool(SubmitFlag, submitOther) /\ InsecureOff)
             => (err' = NoError /\ pc' = "prerun")]_vars
    /\ []((runner.calls > 0 /\ nargs = 1 /\ ~submit /\ InsecureOff
              /\ ~(submitOther.set /\ submitOther.val))
             => ~runner.SubmitResults)

\* C10 amended: with one argument, submit false, insecure false and no
\* changed flag whose value contains "--submit", checkContainerPositionalArgs
\* passes whatever the project identifier and the token are and leaves the
\* submit variable false; a run that goes on to the runner invokes it with
\* SubmitResults false.
C10_NoSubmitNoScanPasses ==
    (nargs = 1 /\ ~GetBool(SubmitFlag, submitOther) /\ InsecureOff /\ ~ScanFindsSubmit) =>
        /\ ArgsReturned => (err = NoError /\ pc = "prerun" /\ ~submit)
        /\ runner.calls > 0 => ~runner.SubmitResults

\* C10 witness: no submit, no insecure, no flag holding "--submit", a project
\* identifier and a token "--t" (on which the fifth credential check would
\* fail), and the runner was invoked with SubmitResults false.
C10_Witness ==
    /\ nargs = 1 /\ ~submitChanged /\ ~submit /\ ~submitOther.set
    /\ InsecureOff /\ ~ScanFindsSubmit
    /\ idFlag = [changed |-> TRUE, val |-> << "7" >>]
    /\ tokFlag = [changed |-> TRUE, val |-> << "-", "-", "t" >>]
    /\ runner.calls = 1 /\ ~runner.SubmitResults


\* some changed string flag holds "--submit" in its value (the text of a bool
\* flag, "true" or "false", never does)
MarkerInChangedFlag ==
    \E f \in { idFlag, tokFlag } \cup ScanOnlyFlags :
        f.changed /\ Contains(f.val, SubmitMarker)

\* the error of the first of the five checks whose condition holds
FirstFailingCheck ==
    IF MissingIDCase THEN MissingProjectID
    ELSE IF MissingTokenCase THEN MissingToken
    ELSE IF EmptyIDCase THEN EmptyProjectID
    ELSE IF EmptyTokenCase THEN EmptyToken
    ELSE IF PrefixedCase THEN MalformedCredential
    ELSE NoError

\* C11: with one positional argument, checkContainerPositionalArgs applies
\* the five submission checks exactly when the submit variable is true or a
\* changed flag's value contains "--submit" (otherwise it returns no error
\* whatever the credentials are); in the latter case it sets the submit
\* variable to true and returns what an explicit --submit would; and no step
\* of the run ever takes the submit variable from true to false.
C11_ChecksRunIffSubmitOrMarker ==
    [][ /\ submit => submit'
        /\ (pc = "args" /\ nargs = 1) =>
               /\ submit' = (submit \/ MarkerInChangedFlag)
               /\ err' = IF submit \/ MarkerInChangedFlag
                         THEN FirstFailingCheck ELSE NoError ]_vars

\* C11 witness: `--platform=--submit` and no other flag: the submit variable
\* set by the scan and the project-id check failed.
C11_Witness ==
    /\ ArgsReturned /\ nargs = 1
    /\ ~submitChanged /\ ~idFlag.changed /\ ~tokFlag.changed
    /\ platformFlag = [changed |-> TRUE, val |-> SubmitMarker]
    /\ submit
    /\ err = MissingProjectID


\* C12: whenever the runner is invoked with SubmitResults true, the project
\* identifier and the API token of the configuration at that point are both
\* non-empty and neither begins with "--".  Violated: "ospid-" passes the
\* credential checks and is normalized to the empty string; a value the file
\* layer sets to "" with the flag unchanged passes the empty checks; submit
\* set by the environment/file alone runs no credential check at all.
C12_SubmitImpliesCredentials ==
    (runner.calls > 0 /\ runner.SubmitResults) =>
        /\ cfg.CertificationProjectID # EmptyStr
        /\ cfg.PyxisAPIToken # EmptyStr
        /\ ~StartsWithTwoHyphens(cfg.CertificationProjectID)
        /\ ~StartsWithTwoHyphens(cfg.PyxisAPIToken)

\* C12 failing run: `--submit --certification-project-id=ospid-
\* --pyxis-api-token=t` has reached the runner with SubmitResults true and an
\* empty project identifier.
C12_LegacyEmptyRest ==
    /\ runner.calls > 0 /\ runner.SubmitResults
    /\ submitChanged
    /\ idFlag = [changed |-> TRUE, val |-> OSPID \o << Hyphen >>]
    /\ tokFlag = [changed |-> TRUE, val |-> << "t" >>]
    /\ cfg.CertificationProjectID = EmptyStr


\* the stages of a run in the order claimed
StageOrder ==
    << "args", "prerun", "logger", "config", "writer", "formatter", "options",
       "submitter", "run" >>

IsClaimedStage(stage) == \E i \in 1 .. Len(StageOrder) : StageOrder[i] = stage

\* the stages executed, cobra's own flag-group validation left out
StagesRun == SelectSeq(trace, IsClaimedStage)

\* the errors a stage can end the run with
StageErrors(stage) ==
    CASE stage = "args" -> { ArgumentError, MissingProjectID, MissingToken,
                             EmptyProjectID, EmptyToken, MalformedCredential }
      [] stage = "prerun" -> { MalformedIdentifier, IndexPanic }
      [] stage = "flaggroups" -> { MutuallyExclusive }
      [] stage = "logger" -> { ContextError }
      [] stage = "config" -> { ConfigurationError }
      [] stage = "writer" -> { ArtifactsError }
      [] stage = "formatter" -> { FormatterError }
      [] stage = "run" -> { CheckExecutionError }
      [] OTHER -> { }

\* C13: the stages run strictly in the order validation, normalization,
\* logging context, configuration, artifacts writer, formatter, options,
\* submitter, runner; a failure ends the run with the error of the stage that
\* ran last, and nothing runs after it; the runner is invoked at most once
\* and only after every earlier stage ran and succeeded.
C13_StagesInOrder ==
    /\ [](/\ Len(StagesRun) <= Len(StageOrder)
          /\ StagesRun = SubSeq(StageOrder, 1, Len(StagesRun))
          /\ err # NoError =>
                 /\ pc = "failed"
                 /\ trace # << >>
                 /\ err \in StageErrors(trace[Len(trace)])
          /\ pc = "failed" => err # NoError
          /\ runner.calls <= 1
          /\ runner.calls = 1 => (StagesRun = StageOrder /\ trace[Len(trace)] = "run"))
    /\ [][pc \notin { "failed", "done" }]_vars

\* C13 witness: a run that failed at the formatter, the sixth stage, without
\* the runner being invoked.
C13_Witness ==
    /\ pc = "failed" /\ err = FormatterError
    /\ StagesRun = SubSeq(StageOrder, 1, 6)
    /\ runner.calls = 0


\* C14: every failure inside checkContainerRunE (logging context,
\* configuration, artifacts writer, formatter, runner) is returned with
\* cmd.SilenceUsage already true.  Violated: SilenceUsage is set just before
\* the runner is invoked, after the four earlier error returns.
C14_RunEErrorsSilenced ==
    (pc = "failed" /\ Ran("logger")) => silenceUsage


CredentialErrors ==
    { MissingProjectID, MissingToken, EmptyProjectID, EmptyToken,
      MalformedCredential }

\* C15 as stated: whenever checkContainerPositionalArgs or
\* validateCertificationProjectID returns an error, the submit variable and
\* the configured project identifier are as they were before the call.
\* Violated: the flag scan sets the submit variable before a credential
\* check fails.
C15_ErrorLeavesStateUntouched ==
    [][(pc \in { "args", "prerun" } /\ err' # NoError)
          => (submit' = submit /\ ProjectID' = ProjectID)]_vars

\* C15 amended: whenever either validator returns an error the configured
\* project identifier is as it was before the call, and so is the submit
\* variable, except that checkContainerPositionalArgs has set it to true when
\* a changed flag's value contains "--submit" and the error returned is one
\* of the five credential errors.
C15_ErrorLeavesStateButScan ==
    [][(pc \in { "args", "prerun" } /\ err' # NoError) =>
          /\ ProjectID' = ProjectID
          /\ idOverride' = idOverride
          /\ \/ submit' = submit
             \/ /\ pc = "args"
                /\ ~submit /\ submit'
                /\ MarkerInChangedFlag
                /\ err' \in CredentialErrors ]_vars

\* C15 witness: checkContainerPositionalArgs returned the "--" prefix error
\* for a token "--submit", --submit itself not given, and left the submit
\* variable true.
C15_Witness ==
    /\ ArgsReturned /\ pc = "failed"
    /\ ~submitChanged /\ submit
    /\ tokFlag = [changed |-> TRUE, val |-> SubmitMarker]
    /\ err = MalformedCredential


LegacyPrefix == OSPID \o << Hyphen >>

\* the project identifiers handed to the check engine's options
OptionProjectIDs ==
    { opts[i].a : i \in { j \in 1 .. Len(opts) : opts[j].opt = "WithCertificationProject" } }

\* C16: in one run the check-engine options, the Pyxis client and the
\* submitter all receive the same project identifier, the normalized one: it
\* is the identifier the configuration holds after normalization, a legacy
\* "ospid-<x>" input reaches them as "<x>", and none of them receives a value
\* with the "ospid-" prefix.
C16_ConsumersSeeNormalizedID ==
    /\ Ran("options") =>
           /\ OptionProjectIDs = { cfg.CertificationProjectID }
           /\ cfg.CertificationProjectID = ProjectID
           /\ ~HasPrefix(cfg.CertificationProjectID, LegacyPrefix)
           /\ HasPrefix(InputID, LegacyPrefix) =>
                  cfg.CertificationProjectID
                      = SubSeq(InputID, Len(LegacyPrefix) + 1, Len(InputID))
    /\ Ran("submitter") =>
           /\ OptionProjectIDs = { pyxisID }
           /\ submitter.kind = "container" => submitter.id = pyxisID
           /\ pyxisID = cfg.CertificationProjectID

\* C16 witness: "ospid-7" on the command line, and the options, the Pyxis
\* client and the submitter all hold "7".
C16_Witness ==
    /\ Ran("submitter")
    /\ idFlag = [changed |-> TRUE, val |-> LegacyPrefix \o << "7" >>]
    /\ OptionProjectIDs = { << "7" >> }
    /\ pyxisID = << "7" >>
    /\ submitter.kind = "container" /\ submitter.id = << "7" >>


\* the option kinds the claim lists for the configuration cfg
ExpectedOptionKinds ==
    << "WithCertificationProject", "WithDockerConfigJSONFromFile",
       "WithPyxisHost", "WithPlatform" >>
    \o (IF cfg.PyxisAPIToken # EmptyStr /\ cfg.CertificationProjectID # EmptyStr
        THEN << "WithCertificationProject" >> ELSE << >>)
    \o (IF cfg.Insecure THEN << "WithInsecureConnection" >> ELSE << >>)

\* C17: the list generateContainerCheckOptions returns starts with the
\* project/auth pairing, the docker-credentials file, the Pyxis host and the
\* platform, in this order; then comes a second project/auth pairing iff the
\* token and the identifier are both non-empty; then the insecure-connection
\* option iff insecure is set; four to six entries and nothing else, the
\* insecure option last when present.
C17_OptionList ==
    Ran("options") =>
        /\ Len(opts) \in 4 .. 6
        /\ [i \in 1 .. Len(opts) |-> opts[i].opt] = ExpectedOptionKinds
        /\ \A i \in 1 .. Len(opts) :
               /\ opts[i].opt = "WithCertificationProject" =>
                      /\ opts[i].a = cfg.CertificationProjectID
                      /\ opts[i].b = cfg.PyxisAPIToken
               /\ opts[i].opt = "WithDockerConfigJSONFromFile" =>
                      opts[i].a = cfg.DockerConfig
               /\ opts[i].opt = "WithPyxisHost" => opts[i].a = cfg.PyxisHost
               /\ opts[i].opt = "WithPlatform" => opts[i].a = cfg.Platform
               /\ opts[i].opt = "WithInsecureConnection" => i = Len(opts)

\* C17 witness: token, identifier and insecure all set: six options, the
\* second pairing fifth and the insecure option last.
C17_Witness ==
    /\ Ran("options")
    /\ Len(opts) = 6
    /\ opts[5].opt = "WithCertificationProject"
    /\ opts[6].opt = "WithInsecureConnection"


\* C18: a call of generateContainerCheckOptions leaves every field of the
\* configuration other than Submit as it was, and Submit too when insecure is
\* not set; a second call on the same configuration returns the option list
\* the first call returned.
C18_OptionsLeaveConfiguration ==
    [][pc = "options" =>
          /\ [cfg' EXCEPT !.Submit = cfg.Submit] = cfg
          /\ ~cfg.Insecure => cfg' = cfg
          /\ generateContainerCheckOptions(cfg').opts = opts'
          /\ generateContainerCheckOptions(cfg').cfg = cfg' ]_vars

\* C18 witness: the options were assembled for a configuration with submit
\* on and insecure off, and submit is still on.
C18_Witness ==
    /\ Ran("options") /\ pc = "submitter"
    /\ ~cfg.Insecure /\ cfg.Submit
    /\ opts # << >>

====
